---- MODULE Spec2Model ----
(***************************************************************************)
(* The three notebooks of the repository, each run in a kernel of its own: *)
(*   "training"   - Training Neural Networks (src/unnamed/part_000)        *)
(*   "validation" - Inference and Validation (Part 5, first notebook)      *)
(*   "saving"     - Saving and Loading Models (Part 5, second notebook)    *)
(* A kernel's state is the notebook's global variables (model, optimizer,  *)
(* loss, state_dict, checkpoint, ...), the file 'checkpoint.pth' and the   *)
(* position inside the cell that is running.  A tensor is kept as its      *)
(* shape and a token naming its value: the network whose random            *)
(* initialisation it started from and the gradients applied to it since.   *)
(***************************************************************************)
EXTENDS Integers, Sequences, FiniteSets, TLC

\* ------------------------------------------------------------------ bounds
\* epochs run by each training loop (the notebooks set 5 and 30)
MaxEpochs == 2
\* len(trainloader)
NumTrainBatches == 2
\* examples of the test set and of one batch (the notebooks: 10000 and 64)
TestSetSize == 3
BatchSize == 2
\* times one kernel of the saving notebook runs a cell other than the next
\* one, top to bottom (a cell run again, or run early)
MaxJumps == 2

VARIABLES
    nb,            \* the notebook this kernel runs
    cellIdx,       \* index of the next cell of the notebook, top to bottom
    jumps,         \* times a cell other than the next one was run
    cell,          \* the cell that is running or ran last
    pc,            \* position inside the running cell, "idle" between cells
    classDef,      \* the class the name Classifier is bound to
    model,         \* the variable `model`
    optimizer,     \* the variable `optimizer`
    loss,          \* the variable `loss`
    gradEnabled,   \* FALSE inside `with torch.no_grad()`
    batch,         \* the batch `images, labels` holds
    e, i, j,       \* epoch, training batch and test batch of the running loop
    nextId,        \* networks constructed so far, plus one
    drawn,         \* batches drawn from the loaders so far
    ops,           \* operations of the current training iteration, in order
    stepsDone,     \* optimizer steps and training batches begun in this cell
    lastFwd,       \* the forward pass made last
    testFwds,      \* forward passes on test batches made in this cell
    snap,          \* parameters and optimizer after the last optimizer.step()
    running_loss, test_loss, accuracy,
    errors,        \* exceptions raised so far: [cell, kind]
    file,          \* contents of 'checkpoint.pth'
    state_dict,    \* the variable `state_dict`
    checkpoint,    \* the variable `checkpoint`
    trainedNet,    \* the network fc_model.train returned from last
    saved,         \* the network `model` held when the checkpoint cell ran
    loadResult,    \* the last call of model.load_state_dict: arguments, outcome
    loaded,        \* the last call of load_checkpoint: network returned, outcome
    ps, labels,    \* the tensors of the cells that compute the accuracy of
    top_p, top_class, equals   \* one batch

vars == <<nb, cellIdx, jumps, cell, pc, classDef, model, optimizer, loss,
          gradEnabled, batch, e, i, j, nextId, drawn, ops, stepsDone,
          lastFwd, testFwds, snap, running_loss, test_loss, accuracy, errors,
          file, state_dict, checkpoint, trainedNet, saved, loadResult, loaded,
          ps, labels, top_p, top_class, equals>>

\* ------------------------------------------------------------ tensors
Range(s) == {s[k] : k \in DOMAIN s}

RECURSIVE Concat(_)
Concat(ss) == IF ss = <<>> THEN <<>> ELSE Head(ss) \o Concat(Tail(ss))

\* .grad of a parameter: None, or the sum of the gradients of the backward
\* passes accumulated in it (terms = <<>> is the zero tensor)
NoneGrad == [isNone |-> TRUE, terms |-> <<>>]
ZeroedGrad == [isNone |-> FALSE, terms |-> <<>>]

\* a freshly initialised tensor of network id
InitVal(id) == [init |-> id, upd |-> <<>>]

\* nn.Linear(in, out) bound to attribute attr: weight (out x in) and bias (out)
Linear(attr, in, out, id) ==
    << [key |-> attr \o ".weight", layer |-> attr, shape |-> <<out, in>>,
        val |-> InitVal(id), grad |-> NoneGrad],
       [key |-> attr \o ".bias", layer |-> attr, shape |-> <<out>>,
        val |-> InitVal(id), grad |-> NoneGrad] >>

\* a tensor: its shape and its elements in row-major order
Tensor(shape, flat) == [shape |-> shape, flat |-> flat]

\* a name no tensor is bound to yet
NoTensor == Tensor(<<>>, <<>>)

\* ------------------------------------------------------------ classes
\* A class: the nn.Linear and nn.Dropout attributes __init__ binds, and the
\* steps of forward; a step reads attribute lin, applies act to its output
\* and passes the result through attribute drop ("" for none).
Lin(attr, list, in, out) == [attr |-> attr, list |-> list, in |-> in, out |-> out]
FwdStep(lin, act, drop) == [lin |-> lin, act |-> act, drop |-> drop]

\* nn.Sequential(Linear(784,128), ReLU, Linear(128,64), ReLU, Linear(64,10))
SequentialLogits ==
    [cls |-> "Sequential",
     linears |-> <<Lin("0", "", 784, 128), Lin("2", "", 128, 64), Lin("4", "", 64, 10)>>,
     dropouts |-> <<>>,
     fwd |-> <<FwdStep("0", "relu", ""), FwdStep("2", "relu", ""),
               FwdStep("4", "none", "")>>]

\* the same with nn.LogSoftmax(dim=1) at the end
SequentialLogSoftmax ==
    [SequentialLogits EXCEPT
        !.fwd = <<FwdStep("0", "relu", ""), FwdStep("2", "relu", ""),
                  FwdStep("4", "log_softmax", "")>>]

\* class Classifier of the validation notebook's second cell
ClassifierPlain ==
    [cls |-> "Classifier",
     linears |-> <<Lin("fc1", "", 784, 256), Lin("fc2", "", 256, 128),
                   Lin("fc3", "", 128, 64), Lin("fc4", "", 64, 10)>>,
     dropouts |-> <<>>,
     fwd |-> <<FwdStep("fc1", "relu", ""), FwdStep("fc2", "relu", ""),
               FwdStep("fc3", "relu", ""), FwdStep("fc4", "log_softmax", "")>>]

\* class Classifier "with dropout added": __init__ binds the Dropout module to
\* self.droput, forward reads self.dropout
ClassifierDropout ==
    [cls |-> "Classifier",
     linears |-> <<Lin("hidden_1", "", 784, 256), Lin("hidden_2", "", 256, 64),
                   Lin("output", "", 64, 10)>>,
     dropouts |-> <<[attr |-> "droput", p |-> "0.2"]>>,
     fwd |-> <<FwdStep("hidden_1", "relu", "dropout"),
               FwdStep("hidden_2", "relu", "dropout"),
               FwdStep("output", "log_softmax", "")>>]

\* fc_model.Network(input_size, output_size, hidden_layers): a ModuleList
\* hidden_layers of Linear layers chained from input_size through the hidden
\* sizes, a Linear output layer and a Dropout(p=0.5)
Network(input_size, output_size, hidden_layers) ==
    [cls |-> "Network",
     linears |->
        [k \in 1..Len(hidden_layers) |->
            Lin("hidden_layers." \o ToString(k - 1), "hidden_layers",
                IF k = 1 THEN input_size ELSE hidden_layers[k - 1],
                hidden_layers[k])]
        \o <<Lin("output", "", hidden_layers[Len(hidden_layers)], output_size)>>,
     dropouts |-> <<[attr |-> "dropout", p |-> "0.5"]>>,
     fwd |-> <<>>]

\* an instance of class def, the id-th network constructed: every module
\* starts in train mode, every parameter with requires_grad and no gradient
New(def, id) ==
    [cls |-> def.cls, id |-> id,
     linears |-> def.linears,
     attrs |-> {def.linears[k].attr : k \in DOMAIN def.linears}
               \cup {def.dropouts[k].attr : k \in DOMAIN def.dropouts},
     dropouts |-> def.dropouts,
     fwd |-> def.fwd,
     params |-> Concat([k \in DOMAIN def.linears |->
                   Linear(def.linears[k].attr, def.linears[k].in,
                          def.linears[k].out, id)]),
     training |-> TRUE]

NoModel ==
    [cls |-> "None", id |-> 0, linears |-> <<>>, attrs |-> {}, dropouts |-> <<>>,
     fwd |-> <<>>, params |-> <<>>, training |-> FALSE]

\* model.hidden_layers
HiddenLayers(m) == SelectSeq(m.linears, LAMBDA l : l.list = "hidden_layers")

\* ------------------------------------------------------------ forward
\* model.forward(x): the attributes forward reads, in the order it reads them
\* (self.dropout is looked up before the argument F.relu(self.hidden_1(x)) is
\* evaluated); reading an attribute __init__ did not bind raises AttributeError
ReadsOf(step) == IF step.drop = "" THEN <<step.lin>> ELSE <<step.drop, step.lin>>

Reads(m) == Concat([k \in DOMAIN m.fwd |-> ReadsOf(m.fwd[k])])

DropoutP(m, attr) ==
    LET ds == SelectSeq(m.dropouts, LAMBDA d : d.attr = attr)
    IN  IF ds = <<>> THEN "" ELSE ds[1].p

NoFwd ==
    [cls |-> "None", net |-> 0, data |-> "", batch |-> 0, ok |-> FALSE,
     error |-> "", training |-> FALSE, grad |-> FALSE, dropped |-> <<>>,
     p |-> <<>>, undropped |-> <<>>, out |-> "", classes |-> 0, val |-> <<>>]

\* the record of one forward pass of model m on `b` (a batch of the "train"
\* or the "test" loader) with gradients enabled or not
Forward(m, data, b, gradOn) ==
    LET missing == SelectSeq(Reads(m), LAMBDA a : a \notin m.attrs)
        withDrop == SelectSeq(m.fwd, LAMBDA s : s.drop # "")
        noDrop == SelectSeq(m.fwd, LAMBDA s : s.drop = "")
    IN  IF missing # <<>>
        THEN [NoFwd EXCEPT !.cls = m.cls, !.net = m.id, !.data = data,
                 !.batch = b, !.error = "AttributeError",
                 !.training = m.training, !.grad = gradOn]
        ELSE [cls |-> m.cls, net |-> m.id, data |-> data, batch |-> b,
              ok |-> TRUE, error |-> "none",
              training |-> m.training, grad |-> gradOn,
              \* layers whose activation passes through dropout, and its p
              dropped |-> [k \in DOMAIN withDrop |-> withDrop[k].lin],
              p |-> [k \in DOMAIN withDrop |-> DropoutP(m, withDrop[k].drop)],
              undropped |-> [k \in DOMAIN noDrop |-> noDrop[k].lin],
              out |-> m.fwd[Len(m.fwd)].act,
              classes |-> m.linears[Len(m.linears)].out,
              \* the parameter values the output was computed from
              val |-> [k \in DOMAIN m.params |-> m.params[k].val]]

\* ------------------------------------------------------------ autograd
NoLoss == [batch |-> 0, net |-> 0, graph |-> FALSE]

\* criterion(output, labels) on the output of forward pass f
Criterion(f) == [batch |-> f.batch, net |-> f.net, graph |-> f.grad]

\* loss.backward(): the gradient of the loss of batch l.batch is added to the
\* .grad of every parameter of the network the loss was computed from
Backward(m, l) ==
    IF l.net # m.id THEN m
    ELSE [m EXCEPT !.params =
            [k \in DOMAIN m.params |->
                [m.params[k] EXCEPT !.grad =
                    [isNone |-> FALSE, terms |-> Append(@.terms, l.batch)]]]]

NoOptimizer == [kind |-> "None", net |-> 0, t |-> 0]

\* optim.SGD(model.parameters(), ...) / optim.Adam(model.parameters(), ...)
NewOptimizer(kind, m) == [kind |-> kind, net |-> m.id, t |-> 0]

\* zero_grad that leaves the gradients as they are
ZeroGradKeeps(m, opt) == m

\* optimizer.zero_grad(): every gradient of the optimizer's parameters that
\* is not None is zeroed
ZeroGrad(m, opt) ==
    IF opt.net # m.id THEN m
    ELSE [m EXCEPT !.params =
            [k \in DOMAIN m.params |->
                [m.params[k] EXCEPT !.grad =
                    IF @.isNone THEN @ ELSE ZeroedGrad]]]

\* optimizer.step(): every parameter of the optimizer with a gradient moves
\* by that gradient
StepParams(m, opt) ==
    IF opt.net # m.id THEN m
    ELSE [m EXCEPT !.params =
            [k \in DOMAIN m.params |->
                IF m.params[k].grad.isNone THEN m.params[k]
                ELSE [m.params[k] EXCEPT
                         !.val.upd = Append(@, m.params[k].grad.terms)]]]

StepOptimizer(opt) == [opt EXCEPT !.t = @ + 1]

\* ------------------------------------------------------------ state dicts
\* model.state_dict(): key -> tensor, in the order of the modules
StateDict(m) ==
    [k \in DOMAIN m.params |->
        [key |-> m.params[k].key, shape |-> m.params[k].shape,
         val |-> m.params[k].val]]

Keys(sd) == {sd[k].key : k \in DOMAIN sd}

Entry(sd, key) == sd[CHOOSE k \in DOMAIN sd : sd[k].key = key]

\* what model.load_state_dict(sd) reports (strict): keys of the model the
\* dict lacks, keys of the dict the model lacks, keys whose shapes differ
MissingKeys(m, sd) == Keys(StateDict(m)) \ Keys(sd)
UnexpectedKeys(m, sd) == Keys(sd) \ Keys(StateDict(m))
SizeMismatch(m, sd) ==
    {key \in Keys(StateDict(m)) \cap Keys(sd) :
        Entry(StateDict(m), key).shape # Entry(sd, key).shape}

\* load_state_dict that compares the keys and not the shapes
LoadErrorKeysOnly(m, sd) ==
    IF MissingKeys(m, sd) # {} \/ UnexpectedKeys(m, sd) # {}
    THEN "RuntimeError: missing or unexpected keys"
    ELSE "none"

LoadError(m, sd) ==
    IF SizeMismatch(m, sd) # {} THEN "RuntimeError: size mismatch"
    ELSE IF MissingKeys(m, sd) # {} \/ UnexpectedKeys(m, sd) # {}
         THEN "RuntimeError: missing or unexpected keys"
         ELSE "none"

\* the model after model.load_state_dict(sd): every parameter whose key is in
\* the dict with the same shape is overwritten, also when the call then raises
LoadStateDict(m, sd) ==
    [m EXCEPT !.params =
        [k \in DOMAIN m.params |->
            IF /\ m.params[k].key \in Keys(sd)
               /\ Entry(sd, m.params[k].key).shape = m.params[k].shape
            THEN [m.params[k] EXCEPT !.val = Entry(sd, m.params[k].key).val]
            ELSE m.params[k]]]

\* ------------------------------------------------------------ files
NoFile == [kind |-> "none", input_size |-> 0, output_size |-> 0,
           hidden_layers |-> <<>>, state_dict |-> <<>>]

\* torch.save(model.state_dict(), 'checkpoint.pth')
StateDictFile(sd) == [NoFile EXCEPT !.kind = "state_dict", !.state_dict = sd]

\* the checkpoint cell with each.in_features written for each.out_features
CheckpointInFeatures(m) ==
    [kind |-> "checkpoint",
     input_size |-> 784,
     output_size |-> 10,
     hidden_layers |-> [k \in DOMAIN HiddenLayers(m) |-> HiddenLayers(m)[k].in],
     state_dict |-> StateDict(m)]

\* checkpoint = {'input_size': 784, 'output_size': 10,
\*               'hidden_layers': [each.out_features for each in model.hidden_layers],
\*               'state_dict': model.state_dict()}
Checkpoint(m) ==
    [kind |-> "checkpoint",
     input_size |-> 784,
     output_size |-> 10,
     hidden_layers |-> [k \in DOMAIN HiddenLayers(m) |-> HiddenLayers(m)[k].out],
     state_dict |-> StateDict(m)]

\* load_checkpoint without its model.load_state_dict(checkpoint['state_dict'])
LoadCheckpointNoLoad(f, id) ==
    New(Network(f.input_size, f.output_size, f.hidden_layers), id)

\* load_checkpoint(filepath): the network it returns, and the exception it
\* ends in ("none" when it returns)
LoadCheckpointModel(f, id) ==
    LoadStateDict(New(Network(f.input_size, f.output_size, f.hidden_layers), id),
                  f.state_dict)

LoadCheckpointError(f, id) ==
    IF f.kind = "none" THEN "FileNotFoundError"
    ELSE IF f.kind # "checkpoint" THEN "KeyError"
    ELSE LoadError(New(Network(f.input_size, f.output_size, f.hidden_layers), id),
                   f.state_dict)

\* a dict read from 'checkpoint.pth', used as a state dict: a checkpoint dict
\* has the four keys of the checkpoint cell and no tensor
AsStateDict(f) ==
    IF f.kind = "checkpoint"
    THEN [k \in 1..4 |->
            [key |-> <<"input_size", "output_size", "hidden_layers", "state_dict">>[k],
             shape |-> <<>>, val |-> InitVal(0)]]
    ELSE f.state_dict

\* ------------------------------------------------------------ notebooks
Notebooks == {"training", "validation", "saving"}

\* the code cells of each notebook that act on the state above, top to bottom
CellsOf(n) ==
    CASE n = "training" ->
            <<"T_logits", "T_logsoftmax", "T_build", "T_backward", "T_optim",
              "T_onestep", "T_step", "T_loop", "T_predict">>
      [] n = "validation" ->
            <<"V_defplain", "V_first", "V_loop", "V_defdrop", "V_droploop",
              "V_infer">>
      [] n = "saving" ->
            <<"S_build", "S_train", "S_save", "S_load", "S_loadsd", "S_try",
              "S_checkpoint", "S_call">>

IndexOf(c) == CHOOSE k \in DOMAIN CellsOf(nb) : CellsOf(nb)[k] = c

\* The kernel runs the cells top to bottom and goes on to the next cell when
\* one ends in an exception.  The cells of the saving notebook, single
\* statements on the kernel's globals, may also be run again or early; jumps
\* counts how often that happened.
IsNext(c) == cellIdx <= Len(CellsOf(nb)) /\ CellsOf(nb)[cellIdx] = c

CanRun(c) ==
    /\ pc = "idle"
    /\ c \in Range(CellsOf(nb))
    /\ \/ IsNext(c)
       \/ nb = "saving" /\ jumps < MaxJumps

InOrder == jumps = 0

\* len(testloader), and the size of its k-th batch (k from 0): the last batch
\* holds what is left
NumTestBatches == (TestSetSize + BatchSize - 1) \div BatchSize

TestBatchLen(k) ==
    IF (k + 1) * BatchSize <= TestSetSize THEN BatchSize
    ELSE TestSetSize - k * BatchSize

NoSnap == [vals |-> <<>>, grads |-> <<>>, opt |-> NoOptimizer]

Vals(m) == [k \in DOMAIN m.params |-> m.params[k].val]
Grads(m) == [k \in DOMAIN m.params |-> m.params[k].grad]

NoCount == [batches |-> 0, steps |-> 0]

NoLoad == [cell |-> "", into |-> NoModel, dict |-> <<>>, error |-> "",
           missing_keys |-> {}, unexpected_keys |-> {}]

Init ==
    /\ nb \in Notebooks
    /\ cellIdx = 1
    /\ jumps = 0
    /\ cell = ""
    /\ pc = "idle"
    /\ classDef = "none"
    /\ model = NoModel
    /\ optimizer = NoOptimizer
    /\ loss = NoLoss
    /\ gradEnabled = TRUE
    /\ batch = 0
    /\ e = 0 /\ i = 0 /\ j = 0
    /\ nextId = 1
    /\ drawn = 0
    /\ ops = <<>>
    /\ stepsDone = NoCount
    /\ lastFwd = NoFwd
    /\ testFwds = <<>>
    /\ snap = NoSnap
    /\ running_loss = 0 /\ test_loss = 0 /\ accuracy = <<>>
    /\ errors = {}
    /\ file = NoFile
    /\ state_dict = NoFile
    /\ checkpoint = NoFile
    /\ trainedNet = NoModel
    /\ saved = NoModel
    /\ loadResult = NoLoad
    /\ loaded = [net |-> NoModel, error |-> "", from |-> NoFile]
    /\ ps = NoTensor /\ labels = NoTensor
    /\ top_p = NoTensor /\ top_class = NoTensor /\ equals = NoTensor

\* the bookkeeping of a cell c that starts (and, with p = "idle", ends)
Begin(c, p) ==
    /\ cell' = c
    /\ pc' = p
    /\ jumps' = IF IsNext(c) THEN jumps ELSE jumps + 1
    /\ cellIdx' = IndexOf(c) + 1

\* the running cell ends in exception kind
Raise(kind) ==
    /\ errors' = errors \cup {[cell |-> cell, kind |-> kind]}
    /\ pc' = "idle"

loopVars == <<e, i, j, ops, stepsDone, testFwds, snap, running_loss, test_loss, accuracy>>
saveVars == <<file, state_dict, checkpoint, trainedNet, saved, loadResult, loaded>>
posVars == <<nb, cellIdx, jumps, cell>>
tensorVars == <<ps, labels, top_p, top_class, equals>>

\* ------------------------------------------------------------ single cells
\* class Classifier(nn.Module): ... (the plain one, then the one with dropout)
DefineClassifier ==
    \E c \in {"V_defplain", "V_defdrop"} :
        /\ CanRun(c)
        /\ Begin(c, "idle")
        /\ classDef' = IF c = "V_defplain" THEN "plain" ELSE "dropout"
        /\ UNCHANGED <<tensorVars, nb, model, optimizer, loss, gradEnabled, batch, nextId,
                       drawn, lastFwd, errors>>
        /\ UNCHANGED loopVars /\ UNCHANGED saveVars

Classifier == IF classDef = "dropout" THEN ClassifierDropout ELSE ClassifierPlain

\* model = nn.Sequential(...); criterion = ...; images, labels = next(iter(trainloader));
\* logits = model(images); loss = criterion(logits, labels)
BuildAndLoss ==
    \E c \in {"T_logits", "T_logsoftmax", "T_build"} :
        LET m == New(IF c = "T_logits" THEN SequentialLogits
                     ELSE SequentialLogSoftmax, nextId)
            f == Forward(m, "train", drawn + 1, gradEnabled)
        IN  /\ CanRun(c)
            /\ Begin(c, "idle")
            /\ model' = m
            /\ nextId' = nextId + 1
            /\ drawn' = drawn + 1
            /\ batch' = drawn + 1
            /\ lastFwd' = f
            /\ loss' = Criterion(f)
            /\ UNCHANGED <<tensorVars, nb, classDef, optimizer, gradEnabled, errors>>
            /\ UNCHANGED loopVars /\ UNCHANGED saveVars

\* loss.backward(), between two prints of model[0].weight.grad
BackwardCell ==
    /\ CanRun("T_backward")
    /\ Begin("T_backward", "idle")
    /\ model' = Backward(model, loss)
    /\ loss' = [loss EXCEPT !.graph = FALSE]
    /\ UNCHANGED <<tensorVars, nb, classDef, optimizer, gradEnabled, batch, nextId, drawn,
                   lastFwd, errors>>
    /\ UNCHANGED loopVars /\ UNCHANGED saveVars

\* optimizer = optim.SGD(model.parameters(), lr=0.01)
MakeOptimizer ==
    /\ CanRun("T_optim")
    /\ Begin("T_optim", "idle")
    /\ optimizer' = NewOptimizer("SGD", model)
    /\ UNCHANGED <<tensorVars, nb, classDef, model, loss, gradEnabled, batch, nextId, drawn,
                   lastFwd, errors>>
    /\ UNCHANGED loopVars /\ UNCHANGED saveVars

\* images, labels = next(iter(trainloader)); optimizer.zero_grad();
\* output = model(images); loss = criterion(output, labels); loss.backward()
OneStep ==
    LET zeroed == ZeroGrad(model, optimizer)
        f == Forward(zeroed, "train", drawn + 1, gradEnabled)
        l == Criterion(f)
    IN  /\ CanRun("T_onestep")
        /\ Begin("T_onestep", "idle")
        /\ drawn' = drawn + 1
        /\ batch' = drawn + 1
        /\ lastFwd' = f
        /\ model' = Backward(zeroed, l)
        /\ loss' = [l EXCEPT !.graph = FALSE]
        /\ ops' = <<"zero_grad", "forward", "loss", "backward">>
        /\ UNCHANGED <<tensorVars, nb, classDef, optimizer, gradEnabled, nextId, errors>>
        /\ UNCHANGED <<e, i, j, stepsDone, testFwds, snap, running_loss,
                       test_loss, accuracy>>
        /\ UNCHANGED saveVars

\* optimizer.step(), in the cell after it
StepCell ==
    /\ CanRun("T_step")
    /\ Begin("T_step", "idle")
    /\ model' = StepParams(model, optimizer)
    /\ optimizer' = StepOptimizer(optimizer)
    /\ ops' = Append(ops, "step")
    /\ UNCHANGED <<tensorVars, nb, classDef, loss, gradEnabled, batch, nextId, drawn,
                   lastFwd, errors>>
    /\ UNCHANGED <<e, i, j, stepsDone, testFwds, snap, running_loss,
                   test_loss, accuracy>>
    /\ UNCHANGED saveVars

\* model = Classifier(); images, labels = next(iter(testloader));
\* ps = torch.exp(model(images))
FirstForward ==
    LET m == New(Classifier, nextId)
        f == Forward(m, "test", drawn + 1, gradEnabled)
    IN  /\ CanRun("V_first")
        /\ Begin("V_first", "idle")
        /\ model' = m
        /\ nextId' = nextId + 1
        /\ drawn' = drawn + 1
        /\ batch' = drawn + 1
        /\ lastFwd' = f
        /\ errors' = IF f.ok THEN errors
                     ELSE errors \cup {[cell |-> "V_first", kind |-> f.error]}
        /\ UNCHANGED <<tensorVars, nb, classDef, optimizer, loss, gradEnabled>>
        /\ UNCHANGED loopVars /\ UNCHANGED saveVars

\* the cells that try the trained network on one image:
\*   (model.eval();) images, labels = next(iter(loader));
\*   with torch.no_grad(): output = model(img)
Inference ==
    \E c \in {"T_predict", "V_infer"} :
        LET m == IF c = "V_infer" THEN [model EXCEPT !.training = FALSE] ELSE model
            f == Forward(m, IF c = "V_infer" THEN "test" ELSE "train",
                         drawn + 1, FALSE)
        IN  /\ CanRun(c)
            /\ Begin(c, "idle")
            /\ model' = m
            /\ drawn' = drawn + 1
            /\ batch' = drawn + 1
            /\ lastFwd' = f
            /\ errors' = IF f.ok THEN errors
                         ELSE errors \cup {[cell |-> c, kind |-> f.error]}
            /\ UNCHANGED <<tensorVars, nb, classDef, optimizer, loss, gradEnabled, nextId>>
            /\ UNCHANGED loopVars /\ UNCHANGED saveVars

\* ------------------------------------------------------------ training loops
\* The three loop cells: "T_loop" (nn.Sequential, SGD, no validation),
\* "V_loop" (Classifier, Adam, validation in the for-else branch) and
\* "V_droploop" (the Classifier with dropout, Adam, validation).
LoopCells == {"T_loop", "V_loop", "V_droploop"}

\* model = ...; criterion = nn.NLLLoss(); optimizer = ...; epochs = ...
StartLoop ==
    \E c \in LoopCells :
        LET m == New(IF c = "T_loop" THEN SequentialLogSoftmax ELSE Classifier,
                     nextId)
        IN  /\ CanRun(c)
            /\ Begin(c, "epoch")
            /\ model' = m
            /\ nextId' = nextId + 1
            /\ optimizer' = NewOptimizer(IF c = "T_loop" THEN "SGD" ELSE "Adam", m)
            /\ e' = 0 /\ i' = 0 /\ j' = 0
            /\ ops' = <<>>
            /\ stepsDone' = NoCount
            /\ testFwds' = <<>>
            /\ snap' = NoSnap
            /\ UNCHANGED <<tensorVars, nb, classDef, loss, gradEnabled, batch, drawn, lastFwd,
                           running_loss, test_loss, accuracy, errors>>
            /\ UNCHANGED saveVars

\* for e in range(epochs): running_loss = 0
EpochHead ==
    /\ pc = "epoch"
    /\ IF e < MaxEpochs
       THEN /\ running_loss' = 0
            /\ i' = 0
            /\ pc' = "batch"
       ELSE /\ pc' = "idle"
            /\ UNCHANGED <<running_loss, i>>
    /\ UNCHANGED <<classDef, model, optimizer, loss, gradEnabled, batch, nextId,
                   drawn, lastFwd, errors, e, j, ops, stepsDone, testFwds, snap,
                   test_loss, accuracy>>
    /\ UNCHANGED posVars /\ UNCHANGED tensorVars /\ UNCHANGED saveVars

\* for images, labels in trainloader: ... else: ...
BatchHead ==
    /\ pc = "batch"
    /\ IF i < NumTrainBatches
       THEN /\ drawn' = drawn + 1
            /\ batch' = drawn + 1
            /\ ops' = <<>>
            /\ stepsDone' = [stepsDone EXCEPT !.batches = @ + 1]
            /\ pc' = "zero_grad"
       ELSE /\ pc' = "else"
            /\ UNCHANGED <<drawn, batch, ops, stepsDone>>
    /\ UNCHANGED <<classDef, model, optimizer, loss, gradEnabled, nextId,
                   lastFwd, errors, e, i, j, testFwds, snap, running_loss,
                   test_loss, accuracy>>
    /\ UNCHANGED posVars /\ UNCHANGED tensorVars /\ UNCHANGED saveVars

\* optimizer.zero_grad()
ZeroGradStmt ==
    /\ pc = "zero_grad"
    /\ model' = ZeroGrad(model, optimizer)
    /\ ops' = Append(ops, "zero_grad")
    /\ pc' = "forward"
    /\ UNCHANGED <<classDef, optimizer, loss, gradEnabled, batch, nextId, drawn,
                   lastFwd, errors, e, i, j, stepsDone, testFwds, snap,
                   running_loss, test_loss, accuracy>>
    /\ UNCHANGED posVars /\ UNCHANGED tensorVars /\ UNCHANGED saveVars

\* output = model(images)  /  log_ps = model.forward(images)
ForwardStmt ==
    LET f == Forward(model, "train", batch, gradEnabled)
    IN  /\ pc = "forward"
        /\ lastFwd' = f
        /\ IF f.ok
           THEN /\ ops' = Append(ops, "forward")
                /\ pc' = "criterion"
                /\ UNCHANGED errors
           ELSE /\ Raise(f.error)
                /\ UNCHANGED ops
        /\ UNCHANGED <<classDef, model, optimizer, loss, gradEnabled, batch,
                       nextId, drawn, e, i, j, stepsDone, testFwds, snap,
                       running_loss, test_loss, accuracy>>
        /\ UNCHANGED posVars /\ UNCHANGED tensorVars /\ UNCHANGED saveVars

\* loss = criterion(output, labels)
CriterionStmt ==
    /\ pc = "criterion"
    /\ loss' = Criterion(lastFwd)
    /\ ops' = Append(ops, "loss")
    /\ pc' = "backward"
    /\ UNCHANGED <<classDef, model, optimizer, gradEnabled, batch, nextId, drawn,
                   lastFwd, errors, e, i, j, stepsDone, testFwds, snap,
                   running_loss, test_loss, accuracy>>
    /\ UNCHANGED posVars /\ UNCHANGED tensorVars /\ UNCHANGED saveVars

\* loss.backward()
BackwardStmt ==
    /\ pc = "backward"
    /\ model' = Backward(model, loss)
    /\ loss' = [loss EXCEPT !.graph = FALSE]
    /\ ops' = Append(ops, "backward")
    /\ pc' = "step"
    /\ UNCHANGED <<classDef, optimizer, gradEnabled, batch, nextId, drawn,
                   lastFwd, errors, e, i, j, stepsDone, testFwds, snap,
                   running_loss, test_loss, accuracy>>
    /\ UNCHANGED posVars /\ UNCHANGED tensorVars /\ UNCHANGED saveVars

\* optimizer.step()
StepStmt ==
    /\ pc = "step"
    /\ model' = StepParams(model, optimizer)
    /\ optimizer' = StepOptimizer(optimizer)
    /\ ops' = Append(ops, "step")
    /\ stepsDone' = [stepsDone EXCEPT !.steps = @ + 1]
    /\ snap' = [vals |-> Vals(StepParams(model, optimizer)),
                grads |-> Grads(model), opt |-> StepOptimizer(optimizer)]
    /\ pc' = "accum"
    /\ UNCHANGED <<classDef, loss, gradEnabled, batch, nextId, drawn, lastFwd,
                   errors, e, i, j, testFwds, running_loss, test_loss,
                   accuracy>>
    /\ UNCHANGED posVars /\ UNCHANGED tensorVars /\ UNCHANGED saveVars

\* running_loss += loss.item()
AccumStmt ==
    /\ pc = "accum"
    /\ running_loss' = running_loss + 1
    /\ i' = i + 1
    /\ pc' = "batch"
    /\ UNCHANGED <<classDef, model, optimizer, loss, gradEnabled, batch, nextId,
                   drawn, lastFwd, errors, e, j, ops, stepsDone, testFwds, snap,
                   test_loss, accuracy>>
    /\ UNCHANGED posVars /\ UNCHANGED tensorVars /\ UNCHANGED saveVars

\* ------------------------------------------------------------ validation pass
\* the else branch of the batch loop.  "T_loop": print the training loss.
\* "V_loop": test_loss = 0; accuracy = 0; with torch.no_grad(): for ... in testloader
\* "V_droploop": running_test_loss = 0; accuracy = 0; for ... in testloader
ElseStmt ==
    /\ pc = "else"
    /\ IF cell = "T_loop"
       THEN /\ e' = e + 1
            /\ pc' = "epoch"
            /\ UNCHANGED <<test_loss, accuracy, j, gradEnabled, snap>>
       ELSE /\ test_loss' = 0
            /\ accuracy' = <<>>
            /\ j' = 0
            /\ gradEnabled' = IF cell = "V_loop" THEN FALSE ELSE gradEnabled
            /\ pc' = "test_batch"
            /\ UNCHANGED <<e, snap>>
    /\ UNCHANGED <<classDef, model, optimizer, loss, batch, nextId, drawn,
                   lastFwd, errors, i, ops, stepsDone, testFwds, running_loss>>
    /\ UNCHANGED posVars /\ UNCHANGED tensorVars /\ UNCHANGED saveVars

\* for images, labels in testloader:
\*   "V_droploop": with torch.no_grad(): model.eval()
\* and, when the loader is exhausted, the end of "V_loop"'s no_grad block
TestBatchHead ==
    /\ pc = "test_batch"
    /\ IF j < NumTestBatches
       THEN /\ drawn' = drawn + 1
            /\ batch' = drawn + 1
            /\ gradEnabled' = IF cell = "V_droploop" THEN FALSE ELSE gradEnabled
            /\ model' = IF cell = "V_droploop"
                        THEN [model EXCEPT !.training = FALSE] ELSE model
            /\ pc' = "test_forward"
       ELSE /\ gradEnabled' = IF cell = "V_loop" THEN TRUE ELSE gradEnabled
            /\ pc' = "print"
            /\ UNCHANGED <<drawn, batch, model>>
    /\ UNCHANGED <<classDef, optimizer, loss, nextId, lastFwd, errors, e, i, j,
                   ops, stepsDone, testFwds, snap, running_loss, test_loss,
                   accuracy>>
    /\ UNCHANGED posVars /\ UNCHANGED tensorVars /\ UNCHANGED saveVars

\* log_ps = model.forward(images)
TestForward ==
    LET f == Forward(model, "test", batch, gradEnabled)
    IN  /\ pc = "test_forward"
        /\ lastFwd' = f
        /\ testFwds' = Append(testFwds,
               [e |-> e, j |-> j, training |-> f.training, grad |-> f.grad,
                ok |-> f.ok])
        /\ IF f.ok
           THEN /\ pc' = "test_criterion"
                /\ UNCHANGED <<errors, gradEnabled>>
           ELSE /\ Raise(f.error)
                /\ gradEnabled' = TRUE
        /\ UNCHANGED <<classDef, model, optimizer, loss, batch, nextId, drawn,
                       e, i, j, ops, stepsDone, snap, running_loss, test_loss,
                       accuracy>>
        /\ UNCHANGED posVars /\ UNCHANGED tensorVars /\ UNCHANGED saveVars

\* the validation body with the training body's optimizer.step() left in
TestCriterionStepping ==
    /\ pc = "test_criterion"
    /\ test_loss' = test_loss + 1
    /\ model' = StepParams(model, optimizer)
    /\ optimizer' = StepOptimizer(optimizer)
    /\ pc' = "test_accuracy"
    /\ UNCHANGED <<classDef, loss, gradEnabled, batch, nextId,
                   drawn, lastFwd, errors, e, i, j, ops, stepsDone, testFwds,
                   snap, running_loss, accuracy>>
    /\ UNCHANGED posVars /\ UNCHANGED tensorVars /\ UNCHANGED saveVars

\* test_loss += criterion(log_ps, labels)
TestCriterion ==
    /\ pc = "test_criterion"
    /\ test_loss' = test_loss + 1
    /\ pc' = "test_accuracy"
    /\ UNCHANGED <<classDef, model, optimizer, loss, gradEnabled, batch, nextId,
                   drawn, lastFwd, errors, e, i, j, ops, stepsDone, testFwds,
                   snap, running_loss, accuracy>>
    /\ UNCHANGED posVars /\ UNCHANGED tensorVars /\ UNCHANGED saveVars

\* ps = torch.exp(log_ps); top_p, top_class = ps.topk(1, dim=1)
\* equals = top_class == labels.view(*top_class.shape)
\* accuracy += torch.mean(equals.type(torch.FloatTensor))
\*   "V_droploop": the no_grad block ends; model.train()
\* correct is the number of examples of the batch the network got right
TestAccuracy ==
    /\ pc = "test_accuracy"
    /\ \E correct \in 0..TestBatchLen(j) :
          accuracy' = Append(accuracy, [correct |-> correct, size |-> TestBatchLen(j)])
    /\ gradEnabled' = IF cell = "V_droploop" THEN TRUE ELSE gradEnabled
    /\ model' = IF cell = "V_droploop"
                THEN [model EXCEPT !.training = TRUE] ELSE model
    /\ j' = j + 1
    /\ pc' = "test_batch"
    /\ UNCHANGED <<classDef, optimizer, loss, batch, nextId, drawn, lastFwd,
                   errors, e, i, ops, stepsDone, testFwds, snap, running_loss,
                   test_loss>>
    /\ UNCHANGED posVars /\ UNCHANGED tensorVars /\ UNCHANGED saveVars

\* train_losses.append(...); test_losses.append(...); print(...)
PrintStmt ==
    /\ pc = "print"
    /\ e' = e + 1
    /\ pc' = "epoch"
    /\ UNCHANGED <<classDef, model, optimizer, loss, gradEnabled, batch, nextId,
                   drawn, lastFwd, errors, i, j, ops, stepsDone, testFwds, snap,
                   running_loss, test_loss, accuracy>>
    /\ UNCHANGED posVars /\ UNCHANGED tensorVars /\ UNCHANGED saveVars

\* ------------------------------------------------------------ printed accuracy
\* a float that is a quotient of two integers, kept as the quotient
Rat(n, d) == [num |-> n, den |-> d]

RatAdd(a, b) == Rat(a.num * b.den + b.num * a.den, a.den * b.den)

\* accuracy after `accuracy += torch.mean(equals.type(torch.FloatTensor))` for
\* each batch of acc, from accuracy = 0: the sum of the batches' means
RECURSIVE SumOfBatchMeans(_)
SumOfBatchMeans(acc) ==
    IF acc = <<>> THEN Rat(0, 1)
    ELSE RatAdd(Rat(Head(acc).correct, Head(acc).size), SumOfBatchMeans(Tail(acc)))

\* 'Test Accuracy: {:.3f}'.format(accuracy/len(testloader))
PrintedAccuracy ==
    LET sum == SumOfBatchMeans(accuracy)
    IN  Rat(sum.num, sum.den * NumTestBatches)

\* ------------------------------------------------------------ saving notebook
\* model = fc_model.Network(784, 10, [512, 256, 128]); criterion = nn.NLLLoss()
\* optimizer = optim.Adam(model.parameters(), lr=0.001)
BuildNetwork ==
    LET m == New(Network(784, 10, <<512, 256, 128>>), nextId)
    IN  /\ CanRun("S_build")
        /\ Begin("S_build", "idle")
        /\ model' = m
        /\ nextId' = nextId + 1
        /\ optimizer' = NewOptimizer("Adam", m)
        /\ UNCHANGED <<tensorVars, nb, classDef, loss, gradEnabled, batch, drawn, lastFwd, errors>>
        /\ UNCHANGED loopVars /\ UNCHANGED saveVars

\* one training step of fc_model.train on batch b
TrainStep(m, opt, b) ==
    StepParams(Backward(ZeroGrad(m, opt), [batch |-> b, net |-> m.id, graph |-> TRUE]),
               opt)

RECURSIVE TrainSteps(_, _, _, _)
TrainSteps(m, opt, b, n) ==
    IF n = 0 THEN m ELSE TrainSteps(TrainStep(m, opt, b), opt, b + 1, n - 1)

\* fc_model.train(model, trainloader, testloader, criterion, optimizer, epochs=2):
\* one optimizer step per training batch, for 2 epochs
TrainCell ==
    LET n == 2 * NumTrainBatches
    IN  /\ CanRun("S_train")
        /\ model.cls = "Network"
        /\ Begin("S_train", "idle")
        /\ model' = TrainSteps(model, optimizer, drawn + 1, n)
        /\ optimizer' = [optimizer EXCEPT !.t = @ + n]
        /\ drawn' = drawn + n
        /\ trainedNet' = TrainSteps(model, optimizer, drawn + 1, n)
        /\ UNCHANGED <<tensorVars, nb, classDef, loss, gradEnabled, batch, nextId, lastFwd, errors>>
        /\ UNCHANGED loopVars
        /\ UNCHANGED <<file, state_dict, checkpoint, saved, loadResult, loaded>>

\* torch.save(model.state_dict(), 'checkpoint.pth')
SaveStateDict ==
    /\ CanRun("S_save")
    /\ model.cls = "Network"
    /\ Begin("S_save", "idle")
    /\ file' = StateDictFile(StateDict(model))
    /\ UNCHANGED <<tensorVars, nb, classDef, model, optimizer, loss, gradEnabled, batch,
                   nextId, drawn, lastFwd, errors>>
    /\ UNCHANGED loopVars
    /\ UNCHANGED <<state_dict, checkpoint, trainedNet, saved, loadResult, loaded>>

\* state_dict = torch.load('checkpoint.pth')
LoadFile ==
    /\ CanRun("S_load")
    /\ file.kind # "none"
    /\ Begin("S_load", "idle")
    /\ state_dict' = file
    /\ UNCHANGED <<tensorVars, nb, classDef, model, optimizer, loss, gradEnabled, batch,
                   nextId, drawn, lastFwd, errors>>
    /\ UNCHANGED loopVars
    /\ UNCHANGED <<file, checkpoint, trainedNet, saved, loadResult, loaded>>

\* the record of model.load_state_dict(sd) called in cell c on model m
LoadCall(c, m, sd) ==
    [cell |-> c, into |-> m, dict |-> sd, error |-> LoadError(m, sd),
     missing_keys |-> MissingKeys(m, sd), unexpected_keys |-> UnexpectedKeys(m, sd)]

\* model.load_state_dict(state_dict), and the cell that first rebinds model:
\*   model = fc_model.Network(784, 10, [400, 200, 100])
\*   model.load_state_dict(state_dict)
LoadStateDictCell ==
    \E c \in {"S_loadsd", "S_try"} :
        LET m == IF c = "S_try"
                 THEN New(Network(784, 10, <<400, 200, 100>>), nextId)
                 ELSE model
            sd == AsStateDict(state_dict)
            r == LoadCall(c, m, sd)
        IN  /\ CanRun(c)
            /\ state_dict.kind # "none"
            /\ m.cls = "Network"
            /\ Begin(c, "idle")
            /\ nextId' = IF c = "S_try" THEN nextId + 1 ELSE nextId
            /\ model' = LoadStateDict(m, sd)
            /\ loadResult' = r
            /\ errors' = IF r.error = "none" THEN errors
                         ELSE errors \cup {[cell |-> c, kind |-> r.error]}
            /\ UNCHANGED <<tensorVars, nb, classDef, optimizer, loss, gradEnabled, batch,
                           drawn, lastFwd>>
            /\ UNCHANGED loopVars
            /\ UNCHANGED <<file, state_dict, checkpoint, trainedNet, saved, loaded>>

\* checkpoint = {...}; torch.save(checkpoint, 'checkpoint.pth')
SaveCheckpoint ==
    /\ CanRun("S_checkpoint")
    /\ model.cls = "Network"
    /\ Begin("S_checkpoint", "idle")
    /\ checkpoint' = Checkpoint(model)
    /\ file' = Checkpoint(model)
    /\ saved' = model
    /\ UNCHANGED <<tensorVars, nb, classDef, model, optimizer, loss, gradEnabled, batch,
                   nextId, drawn, lastFwd, errors>>
    /\ UNCHANGED loopVars
    /\ UNCHANGED <<state_dict, trainedNet, loadResult, loaded>>

\* model = load_checkpoint('checkpoint.pth'): the function of the cell before
\* last, applied as the last cell's first (commented) line applies it
CallLoadCheckpoint ==
    LET err == LoadCheckpointError(file, nextId)
    IN  /\ CanRun("S_call")
        /\ file.kind # "none"
        /\ Begin("S_call", "idle")
        /\ IF err = "none"
           THEN /\ model' = LoadCheckpointModel(file, nextId)
                /\ loaded' = [net |-> LoadCheckpointModel(file, nextId),
                              error |-> "none", from |-> file]
                /\ nextId' = nextId + 1
                /\ UNCHANGED errors
           ELSE /\ loaded' = [net |-> NoModel, error |-> err, from |-> file]
                /\ errors' = errors \cup {[cell |-> "S_call", kind |-> err]}
                /\ nextId' = IF file.kind = "checkpoint" THEN nextId + 1 ELSE nextId
                /\ UNCHANGED model
        /\ UNCHANGED <<tensorVars, nb, classDef, optimizer, loss, gradEnabled, batch, drawn,
                       lastFwd>>
        /\ UNCHANGED loopVars
        /\ UNCHANGED <<file, state_dict, checkpoint, trainedNet, saved, loadResult>>

\* ------------------------------------------------------------ accuracy cells
\* The cells between the first forward pass and the training loop:
\*   top_p, top_class = ps.topk(1, dim=1)
\*   equals = top_class == labels.view(*top_class.shape)
\*   accuracy = torch.mean(equals.type(torch.FloatTensor))
\* No later cell reads what they bind before binding it again, so Spec leaves
\* their tensors unbound; AccSpec runs them on the batches drawn below.

\* classes of Fashion-MNIST: the out_features of the Classifier's last layer
NumClasses == 10

\* one-based positions at which the rows drawn have their highest value
Peaks == {1, 5, 10}

\* labels the examples drawn carry
LabelSet == {0, 4, 9}

\* a row of class probabilities (as weights): highest at p and at q, the
\* second class next, the others lowest
ProbRow(p, q) ==
    [k \in 1..NumClasses |-> IF k \in {p, q} THEN 3 ELSE IF k = 2 THEN 2 ELSE 1]

ProbRows == {ProbRow(p, q) : p \in Peaks, q \in Peaks}

\* examples of the batch the first forward pass ran on
FirstBatchLen == TestBatchLen(0)

\* the 2-D tensor of the rows given
Tensor2(rows) == Tensor(<<Len(rows), Len(rows[1])>>, Concat(rows))

\* t[i, j] and t[i, :] of a 2-D tensor, i and j from 1
At2(t, r, c) == t.flat[(r - 1) * t.shape[2] + c]

RowOf(t, r) == [c \in 1..t.shape[2] |-> At2(t, r, c)]

Max(row) == CHOOSE v \in Range(row) : \A w \in Range(row) : w <= v

\* ps.topk(1, dim=1) with zero replaced by one as the first index
ArgMaxOneBased(row) == {k \in DOMAIN row : row[k] = Max(row)}

\* the zero-based indices topk may return for a row: those of its highest
\* value (which one of several equal ones is not specified)
ArgMax(row) == {k - 1 : k \in {n \in DOMAIN row : row[n] = Max(row)}}

\* labels.view(*shape) that leaves the tensor as it is
ViewKeeps(t, shape) == t

\* t.view(*shape): the same elements under another shape
View(t, shape) == Tensor(shape, t.flat)

\* a shape as two dimensions, and two dimensions broadcast to one
Shape2(t) == IF Len(t.shape) = 1 THEN <<1, t.shape[1]>> ELSE t.shape

Broadcast(m, n) == IF m = 1 THEN n ELSE m

\* a == b, elementwise with broadcasting: 1 where the elements are equal
Eq(a, b) ==
    LET sa == Shape2(a)
        sb == Shape2(b)
        rows == Broadcast(sa[1], sb[1])
        cols == Broadcast(sa[2], sb[2])
        ix(sh, r, c) == ((IF sh[1] = 1 THEN 1 ELSE r) - 1) * sh[2]
                        + (IF sh[2] = 1 THEN 1 ELSE c)
        el(n) == LET r == ((n - 1) \div cols) + 1
                     c == ((n - 1) % cols) + 1
                 IN  IF a.flat[ix(sa, r, c)] = b.flat[ix(sb, r, c)] THEN 1 ELSE 0
    IN  Tensor(IF Len(a.shape) = 1 /\ Len(b.shape) = 1 THEN <<cols>>
               ELSE <<rows, cols>>,
               [n \in 1..(rows * cols) |-> el(n)])

RECURSIVE SumSeq(_)
SumSeq(q) == IF q = <<>> THEN 0 ELSE Head(q) + SumSeq(Tail(q))

\* torch.mean(t.type(torch.FloatTensor)): the sum of the elements over their
\* number
Mean(t) == Rat(SumSeq(t.flat), Len(t.flat))

\* the kernel after `class Classifier` and the first forward pass, which ran
\* on a batch of the test loader: images, labels and ps are bound
AccInit ==
    LET m == New(ClassifierPlain, 1)
    IN  /\ nb = "validation"
        /\ cellIdx = 3
        /\ jumps = 0
        /\ cell = "V_first"
        /\ pc = "idle"
        /\ classDef = "plain"
        /\ model = m
        /\ optimizer = NoOptimizer
        /\ loss = NoLoss
        /\ gradEnabled = TRUE
        /\ batch = 1
        /\ e = 0 /\ i = 0 /\ j = 0
        /\ nextId = 2
        /\ drawn = 1
        /\ ops = <<>>
        /\ stepsDone = NoCount
        /\ lastFwd = Forward(m, "test", 1, TRUE)
        /\ testFwds = <<>>
        /\ snap = NoSnap
        /\ running_loss = 0 /\ test_loss = 0 /\ accuracy = <<>>
        /\ errors = {}
        /\ file = NoFile
        /\ state_dict = NoFile
        /\ checkpoint = NoFile
        /\ trainedNet = NoModel
        /\ saved = NoModel
        /\ loadResult = NoLoad
        /\ loaded = [net |-> NoModel, error |-> "", from |-> NoFile]
        /\ \E rows \in [1..FirstBatchLen -> ProbRows] : ps = Tensor2(rows)
        /\ \E ls \in [1..FirstBatchLen -> LabelSet] :
              labels = Tensor(<<FirstBatchLen>>, ls)
        /\ top_p = NoTensor /\ top_class = NoTensor /\ equals = NoTensor

kernelVars == <<nb, cellIdx, jumps, pc, classDef, model, optimizer, loss,
                gradEnabled, batch, e, i, j, nextId, drawn, ops, stepsDone,
                lastFwd, testFwds, snap, running_loss, test_loss, errors>>

\* top_p, top_class = ps.topk(1, dim=1)
TopkCell ==
    LET n == ps.shape[1]
        choices == {f \in [1..n -> UNION {ArgMax(RowOf(ps, r)) : r \in 1..n}] :
                       \A r \in 1..n : f[r] \in ArgMax(RowOf(ps, r))}
    IN  /\ pc = "idle"
        /\ cell = "V_first"
        /\ cell' = "V_topk"
        /\ \E f \in choices : top_class' = Tensor2([r \in 1..n |-> <<f[r]>>])
        /\ top_p' = Tensor2([r \in 1..n |-> <<Max(RowOf(ps, r))>>])
        /\ UNCHANGED <<ps, labels, equals, accuracy>>
        /\ UNCHANGED kernelVars /\ UNCHANGED saveVars

\* equals = top_class == labels.view(*top_class.shape)
EqualsCell ==
    /\ pc = "idle"
    /\ cell = "V_topk"
    /\ cell' = "V_equals"
    /\ equals' = Eq(top_class, View(labels, top_class.shape))
    /\ UNCHANGED <<ps, labels, top_p, top_class, accuracy>>
    /\ UNCHANGED kernelVars /\ UNCHANGED saveVars

\* accuracy = torch.mean(equals.type(torch.FloatTensor))
AccuracyCell ==
    /\ pc = "idle"
    /\ cell = "V_equals"
    /\ cell' = "V_accuracy"
    /\ accuracy' = Mean(equals)
    /\ UNCHANGED tensorVars
    /\ UNCHANGED kernelVars /\ UNCHANGED saveVars

AccNext ==
    \/ TopkCell
    \/ EqualsCell
    \/ AccuracyCell

AccSpec == AccInit /\ [][AccNext]_vars

\* ------------------------------------------------------------ specification
Next ==
    \/ DefineClassifier
    \/ BuildAndLoss
    \/ BackwardCell
    \/ MakeOptimizer
    \/ OneStep
    \/ StepCell
    \/ FirstForward
    \/ Inference
    \/ StartLoop
    \/ EpochHead
    \/ BatchHead
    \/ ZeroGradStmt
    \/ ForwardStmt
    \/ CriterionStmt
    \/ BackwardStmt
    \/ StepStmt
    \/ AccumStmt
    \/ ElseStmt
    \/ TestBatchHead
    \/ TestForward
    \/ TestCriterion
    \/ TestAccuracy
    \/ PrintStmt
    \/ BuildNetwork
    \/ TrainCell
    \/ SaveStateDict
    \/ LoadFile
    \/ LoadStateDictCell
    \/ SaveCheckpoint
    \/ CallLoadCheckpoint

Spec == Init /\ [][Next]_vars

\* ------------------------------------------------------------ properties
Last(s) == s[Len(s)]

Shapes(sd) == {<<sd[k].key, sd[k].shape>> : k \in DOMAIN sd}

HasKey(sd, key) == key \in Keys(sd)

\* the metadata of checkpoint dict c matches the shapes of its tensors
SelfConsistent(c) ==
    LET h == c.hidden_layers
        sd == c.state_dict
        hidden(k) == "hidden_layers." \o ToString(k - 1) \o ".weight"
    IN  /\ Len(h) >= 1
        /\ \A k \in 1..Len(h) :
              /\ HasKey(sd, hidden(k))
              /\ Entry(sd, hidden(k)).shape =
                    <<h[k], IF k = 1 THEN c.input_size ELSE h[k - 1]>>
        /\ ~HasKey(sd, hidden(Len(h) + 1))
        /\ HasKey(sd, "output.weight")
        /\ Entry(sd, "output.weight").shape = <<c.output_size, h[Len(h)]>>

\* C1: every checkpoint dictionary the checkpoint cell builds is
\* self-consistent: its input_size, output_size and hidden_layers match the
\* shapes of the tensors of its state_dict, whatever network model holds.
C1_CheckpointSelfConsistent ==
    /\ checkpoint.kind = "checkpoint" => SelfConsistent(checkpoint)
    /\ file.kind = "checkpoint" => SelfConsistent(file)

\* the checkpoint cell has run on the network of the "Try this" cell
C1_Witness ==
    /\ cell = "S_checkpoint"
    /\ checkpoint.kind = "checkpoint"
    /\ checkpoint.hidden_layers = <<400, 200, 100>>
    /\ saved.cls = "Network"

\* C2: load_checkpoint on the file the checkpoint cell wrote returns, without
\* the size-mismatch error, a network with the layer sizes and the parameter
\* values of the network that was saved.
C2_RoundTrip ==
    (loaded.from.kind = "checkpoint" /\ loaded.from = checkpoint) =>
        /\ loaded.error = "none"
        /\ loaded.net.cls = "Network"
        /\ loaded.net.linears = saved.linears
        /\ StateDict(loaded.net) = StateDict(saved)

\* load_checkpoint returned the network of a checkpoint whose values differ
\* from a fresh network's
C2_Witness ==
    /\ cell = "S_call"
    /\ loaded.from.kind = "checkpoint"
    /\ loaded.from = checkpoint
    /\ loaded.error = "none"
    /\ loaded.net.id # saved.id
    /\ \E k \in DOMAIN saved.params : saved.params[k].val.init # saved.id

\* C3: with the cells of the saving notebook run in order, the checkpoint
\* written by the checkpoint cell holds the hidden_layers and the state_dict
\* of the network fc_model.train trained.
C3_CheckpointOfTrainedModel ==
    (nb = "saving" /\ InOrder /\ cell = "S_checkpoint") =>
        /\ file.kind = "checkpoint"
        /\ file.hidden_layers = <<512, 256, 128>>
        /\ file.hidden_layers =
              [k \in DOMAIN HiddenLayers(trainedNet) |-> HiddenLayers(trainedNet)[k].out]
        /\ file.state_dict = StateDict(trainedNet)

\* the hidden layer sizes a state dict of a Network was saved with
HiddenOf(sd) ==
    LET ws == SelectSeq(sd, LAMBDA en : Len(en.shape) = 2)
    IN  [k \in 1..(Len(ws) - 1) |-> ws[k].shape[1]]

SameArchitecture(m, sd) == Shapes(StateDict(m)) = Shapes(sd)

\* C4: model.load_state_dict(state_dict) succeeds, with no missing and no
\* unexpected key, exactly when every layer shape of the model is the shape
\* saved, and ends in the size-mismatch error when the model was built with
\* other hidden layer sizes than the network saved.
C4_LoadStateDictNeedsSameArchitecture ==
    loadResult.cell # "" =>
        /\ loadResult.error = "none" <=>
              SameArchitecture(loadResult.into, loadResult.dict)
        /\ loadResult.error = "none" =>
              loadResult.missing_keys = {} /\ loadResult.unexpected_keys = {}
        /\ ( /\ Keys(loadResult.dict) = Keys(StateDict(loadResult.into))
             /\ HiddenOf(loadResult.dict) # HiddenOf(StateDict(loadResult.into)) )
           => loadResult.error = "RuntimeError: size mismatch"

\* in order: the load into the same network has succeeded and the load into
\* Network(784, 10, [400, 200, 100]) has just failed
C4_Witness ==
    /\ InOrder
    /\ cell = "S_try"
    /\ loadResult.cell = "S_try"
    /\ HiddenOf(loadResult.dict) = <<512, 256, 128>>
    /\ HiddenOf(StateDict(loadResult.into)) = <<400, 200, 100>>
    /\ loadResult.error = "RuntimeError: size mismatch"
    /\ errors = {[cell |-> "S_try", kind |-> "RuntimeError: size mismatch"]}

\* C5: the only error outcome of the notebooks' code, run in order, is the
\* size-mismatch error of loading a state dict into a network of another
\* architecture.
C5_OnlySizeMismatchErrors ==
    InOrder =>
        \A err \in errors :
            /\ err.kind = "RuntimeError: size mismatch"
            /\ err.cell = "S_try"

\* f is a forward pass of the model, an instance of the Classifier defined
\* with dropout
DropoutForward(f) ==
    /\ model.cls = "Classifier"
    /\ model.dropouts # <<>>
    /\ f.net = model.id

\* C6: forward of the Classifier defined with dropout returns, for every
\* input batch, the log-softmax over the 10 classes, with dropout (p = 0.2)
\* applied to the ReLU output of each hidden layer and not to the output
\* layer.
C6_DropoutClassifierForward ==
    DropoutForward(lastFwd) =>
        /\ lastFwd.ok
        /\ lastFwd.dropped = <<"hidden_1", "hidden_2">>
        /\ lastFwd.p = <<"0.2", "0.2">>
        /\ lastFwd.undropped = <<"output">>
        /\ lastFwd.out = "log_softmax"
        /\ lastFwd.classes = 10

\* the gradient of the loss of batch b alone
GradOf(b) == [isNone |-> FALSE, terms |-> <<b>>]

\* optimizer.step() is the statement to run next
AtStep ==
    \/ pc = "step"
    \/ nb = "training" /\ pc = "idle" /\ IsNext("T_step")

\* optimizer.step() is the statement that ran last
AfterStep ==
    \/ pc = "accum"
    \/ cell = "T_step" /\ pc = "idle"

\* C7: at every optimizer.step() the gradient each parameter holds is that of
\* the current batch's loss alone, and that is the gradient the step applies:
\* no contribution of an earlier batch or backward pass is left in it.
C7_GradientOfCurrentBatchAlone ==
    /\ AtStep =>
          /\ optimizer.net = model.id
          /\ \A k \in DOMAIN model.params : model.params[k].grad = GradOf(batch)
    /\ AfterStep =>
          \A k \in DOMAIN model.params :
              /\ model.params[k].val.upd # <<>>
              /\ Last(model.params[k].val.upd) = <<batch>>

\* the single-step cell ran after the earlier loss.backward() on the same
\* model, and optimizer.step() has applied its gradient
C7_Witness ==
    /\ cell = "T_step"
    /\ AfterStep
    /\ optimizer.t = 1
    /\ batch > 1
    /\ \A k \in DOMAIN model.params : model.params[k].val.upd = <<<<batch>>>>

IsPrefix(s, t) == Len(s) <= Len(t) /\ s = SubSeq(t, 1, Len(s))

TrainingPass == <<"zero_grad", "forward", "loss", "backward", "step">>

\* positions of a loop cell at which no training iteration is under way
BetweenBatches == {"idle", "epoch", "batch", "else", "test_batch",
                   "test_forward", "test_criterion", "test_accuracy", "print"}

\* C8: in every iteration of every training loop the operations occur in the
\* order clear gradients, forward pass, loss, backward pass, optimizer step,
\* and exactly one step is taken for every batch the loop takes.
C8_OneOrderedStepPerBatch ==
    cell \in LoopCells =>
        /\ IsPrefix(ops, TrainingPass)
        /\ pc \in BetweenBatches => stepsDone.steps = stepsDone.batches
        /\ pc \notin BetweenBatches => stepsDone.batches \in
              {stepsDone.steps, stepsDone.steps + 1}

ValidationPcs == {"test_batch", "test_forward", "test_criterion",
                  "test_accuracy", "print"}

\* C9: from the last optimizer.step() of an epoch through the validation
\* pass, over any number of test batches, the weights and biases and the
\* optimizer's state are what that step left, and no backward pass or
\* optimizer step is executed.
C9_ValidationLeavesParameters ==
    (cell \in {"V_loop", "V_droploop"} /\ pc \in ValidationPcs \cup {"accum", "else"}) =>
        /\ Vals(model) = snap.vals
        /\ optimizer = snap.opt
        /\ Grads(model) = snap.grads
        /\ ops = TrainingPass

\* the validation pass of the second epoch has gone through every test batch
C9_Witness ==
    /\ cell = "V_loop"
    /\ pc = "print"
    /\ e = 1
    /\ j = NumTestBatches
    /\ NumTestBatches > 1
    /\ optimizer.t = 2 * NumTrainBatches

\* C10: in the training loop of the model with dropout, every test batch of
\* every epoch is passed forward with the model in evaluation mode (dropout
\* off) and with gradients turned off.
C10_TestForwardInEvalNoGrad ==
    /\ cell = "V_droploop" =>
          \A k \in DOMAIN testFwds :
              ~testFwds[k].training /\ ~testFwds[k].grad /\ testFwds[k].ok
    /\ (cell = "V_droploop" /\ pc = "idle") =>
          Len(testFwds) = MaxEpochs * NumTestBatches


\* a training batch was passed forward last, through the model of the loop
TrainForward(f) == f.net = model.id /\ f.data = "train"

\* C11: in the training loop of the model with dropout every forward pass on
\* a training batch, in the first epoch and in every epoch after a validation
\* pass, is executed with the model in train mode (dropout on) and with
\* gradients enabled, and the loop runs every epoch.
C11_TrainForwardInTrainMode ==
    cell = "V_droploop" =>
        /\ TrainForward(lastFwd) =>
              lastFwd.ok /\ lastFwd.training /\ lastFwd.grad
        /\ pc \in {"criterion", "backward", "step", "accum"} =>
              TrainForward(lastFwd) /\ model.training /\ gradEnabled
        /\ pc = "idle" => e = MaxEpochs

RatEq(a, b) == a.num * b.den = b.num * a.den

RECURSIVE TotalCorrect(_)
TotalCorrect(acc) ==
    IF acc = <<>> THEN 0 ELSE Head(acc).correct + TotalCorrect(Tail(acc))

RECURSIVE TotalSize(_)
TotalSize(acc) ==
    IF acc = <<>> THEN 0 ELSE Head(acc).size + TotalSize(Tail(acc))

\* the epoch's validation pass is over and its accuracy has been printed
AccuracyPrinted ==
    /\ cell \in {"V_loop", "V_droploop"}
    /\ pc = "epoch"
    /\ e > 0

\* C12: the test accuracy printed after an epoch's validation loop is the
\* total accuracy over the test set: the number of test examples predicted
\* right divided by the number of test examples, also when the last batch is
\* smaller than the others.
C12_PrintedAccuracyIsTotal ==
    AccuracyPrinted =>
        /\ TotalSize(accuracy) = TestSetSize
        /\ RatEq(PrintedAccuracy, Rat(TotalCorrect(accuracy), TestSetSize))

TrainingPcs == {"batch", "zero_grad", "forward", "criterion", "backward",
                "step", "accum"}

\* C15: in the training loops with validation the validation pass runs once
\* in every epoch, after all training batches of the epoch: no validation
\* batch is evaluated while training batches of the epoch are left, no
\* training step follows the validation pass in its epoch, and a loop that
\* has ended has validated every epoch.
C15_ValidationOncePerEpoch ==
    cell \in {"V_loop", "V_droploop"} =>
        /\ pc \in TrainingPcs \cup {"else"} =>
              /\ Len(testFwds) = e * NumTestBatches
              /\ stepsDone.steps <= (e + 1) * NumTrainBatches
        /\ pc \in ValidationPcs =>
              /\ i = NumTrainBatches
              /\ stepsDone.steps = (e + 1) * NumTrainBatches
              /\ stepsDone.batches = stepsDone.steps
              /\ Len(testFwds) \in (e * NumTestBatches)..((e + 1) * NumTestBatches)
        /\ pc = "epoch" =>
              /\ Len(testFwds) = e * NumTestBatches
              /\ stepsDone.steps = e * NumTrainBatches
        /\ pc = "idle" =>
              /\ e = MaxEpochs
              /\ Len(testFwds) = MaxEpochs * NumTestBatches

\* ps.topk has run on the batch
TopkDone == cell \in {"V_topk", "V_equals", "V_accuracy"}

\* the r-th row of ps has its one highest value at its fifth element
FifthHighest(r) == \A k \in 1..NumClasses : k # 5 => At2(ps, r, k) < At2(ps, r, 5)

\* C14: ps.topk(1, dim=1) returns for every row the highest probability of
\* the row and its zero-based class index: the index is in 0..9, the row has
\* the value returned at that index and no higher one, and a row whose
\* highest value is its fifth element gets index 4.
C14_TopkHighestZeroBased ==
    TopkDone =>
        /\ top_p.shape = <<FirstBatchLen, 1>>
        /\ top_class.shape = <<FirstBatchLen, 1>>
        /\ \A r \in 1..FirstBatchLen :
              /\ At2(top_class, r, 1) \in 0..9
              /\ At2(ps, r, At2(top_class, r, 1) + 1) = At2(top_p, r, 1)
              /\ \A k \in 1..NumClasses : At2(ps, r, k) <= At2(top_p, r, 1)
              /\ FifthHighest(r) => At2(top_class, r, 1) = 4

\* topk has run on a batch with a row whose fifth element alone is highest,
\* a row whose last element is among the highest
C14_Witness ==
    /\ cell = "V_topk"
    /\ \E r \in 1..FirstBatchLen : FifthHighest(r) /\ At2(top_class, r, 1) = 4
    /\ \E r \in 1..FirstBatchLen :
          /\ At2(top_class, r, 1) = 9
          /\ Cardinality(ArgMax(RowOf(ps, r))) = 2

\* the examples of the batch whose predicted class is their label
Correct == {r \in 1..FirstBatchLen : top_class.flat[r] = labels.flat[r]}

\* C13: equals has the shape of top_class (batch size x 1), its entry for
\* example r is 1 exactly when the predicted class of r is the label of r,
\* and the batch accuracy, the mean of equals as floats, is the number of
\* right predictions over the batch size.
C13_EqualsElementwise ==
    /\ cell \in {"V_equals", "V_accuracy"} =>
          /\ equals.shape = top_class.shape
          /\ equals.shape = <<FirstBatchLen, 1>>
          /\ Len(equals.flat) = FirstBatchLen
          /\ \A r \in 1..FirstBatchLen :
                /\ equals.flat[r] \in {0, 1}
                /\ equals.flat[r] = 1 <=> r \in Correct
    /\ cell = "V_accuracy" =>
          RatEq(accuracy, Rat(Cardinality(Correct), FirstBatchLen))

\* the accuracy is that of a batch with a right and a wrong prediction, the
\* wrong one's label being the class predicted for the other example
C13_Witness ==
    /\ cell = "V_accuracy"
    /\ \E r, q \in 1..FirstBatchLen :
          /\ r \in Correct
          /\ q \notin Correct
          /\ labels.flat[q] = top_class.flat[r]
    /\ accuracy.num = Cardinality(Correct)
    /\ accuracy.den = FirstBatchLen

====
